---- MODULE Spec2Model ----
(***************************************************************************)
(* Model of src/main.rs of cellular_automata: the toroidal Board, the      *)
(* next_step generation function with its Rules table, and the frame loop  *)
(* of main() that shares the Board, behind a Mutex, with the stepping      *)
(* thread it spawns.                                                       *)
(*                                                                         *)
(* Two specifications share the variables:                                 *)
(*   Spec      the program: main()'s frame loop and the spawned threads;   *)
(*   SpecStep  next_step applied to boards and rules drawn from bounded    *)
(*             sets, for up to MaxGen generations;                         *)
(*   SpecGet   Board::get_cell_at_position probed on boards whose cells    *)
(*             hold pairwise different values.                             *)
(*                                                                         *)
(* Not modelled: wait_time (the sleep is a thread position that ends at    *)
(* any time), draw_borders and the colors (rendering only).                *)
(***************************************************************************)
EXTENDS Integers, Sequences, FiniteSets, TLC

VARIABLES
    game,               \* the Board inside game_mtx
    lock,               \* who holds game_mtx: "free", "main" or "thread"
    poisoned,           \* game_mtx is poisoned (a holder panicked)
    cfg,                \* simulation_cfg
    cell_below_mouse,   \* cell_below_mouse
    mouse_down,         \* is_mouse_button_down(Left) of the current frame
    fg_pc,              \* position of main()'s loop
    thr_pc,             \* position of the thread in each slot
    thr_new,            \* new_game_state of the thread in each slot
    thr_src,            \* history: the grid as the thread found it at lock()
    handler,            \* slot of the thread `handler` is the JoinHandle of
    last_sched,         \* history: what this frame's scheduling block did
    frames,             \* number of frames begun
    rules,              \* the Rules value
    board,              \* SpecStep: the source Board
    out,                \* SpecStep: outcome of next_step on board
    gen,                \* SpecStep: generations computed
    probe               \* SpecGet: the latest get_cell_at_position probe

vars == <<game, lock, poisoned, cfg, cell_below_mouse, mouse_down, fg_pc,
          thr_pc, thr_new, thr_src, handler, last_sched, frames,
          rules, board, out, gen, probe>>

progVars == <<game, lock, poisoned, cfg, cell_below_mouse, mouse_down, fg_pc,
              thr_pc, thr_new, thr_src, handler, last_sched, frames>>

pureVars == <<board, out, gen, probe>>

---------------------------------------------------------------------------
(* Bounds of the model.                                                    *)

\* Board::new(26, 24) of main(), scaled down: width and height of the
\* initial board.  board_size starts as (InitBoardX, InitBoardY - 1), as the
\* source's (26, 20) has the board's width and a smaller height.
InitBoardX == 4
InitBoardY == 3

\* The board-size sliders range over 1..=500; the model's over 1..MaxSlider.
MaxSlider == 2

\* Frames the model lets main()'s loop begin.
MaxFrames == 3

\* Thread slots (threads alive at once that the model can represent).
MaxThreads == 2

\* SpecStep: boards of 1..MaxDim x 1..MaxDim with at most MaxLive live cells
\* and cell values 0..MaxVal; blinker boards of 5..MaxBlinkerDim squared.
MaxDim == 3
MaxVal == 3
MaxLive == 2
MaxBlinkerDim == 5
\* SpecGet: labelled boards of 1..MaxGetDim x 1..MaxGetDim, probed at
\* x + k*cx for k in -MaxK..MaxK.
MaxGetDim == 3
MaxK == 2
\* SpecStep: generations computed from one input.
MaxGen == 2

---------------------------------------------------------------------------
(* Rust arithmetic.                                                        *)

\* i8::MAX: `neighbors` and the cell states are i8.
I8Max == 127

\* Rust's `%` on i32: the remainder takes the sign of the dividend.
Rem(a, b) == IF a >= 0 THEN a % b ELSE 0 - ((0 - a) % b)

\* i8::max
Max(a, b) == IF a >= b THEN a ELSE b

---------------------------------------------------------------------------
(* Board (src/main.rs:40-81).  states[i + 1] models self.states[i].        *)

Zeros(n) == [i \in 1..n |-> 0]

\* Board::new
Board_new(x, y) == [cx |-> x, cy |-> y, states |-> Zeros(x * y)]

\* No board: the value of new_game_state outside next_step.
NoBoard == [cx |-> 0, cy |-> 0, states |-> <<>>]

\* Values of the variables a specification does not use.
NoOutcome == [done |-> FALSE, panicked |-> FALSE, board |-> NoBoard]
NoProbe == [x |-> 0, y |-> 0, k |-> 0, base |-> 0, value |-> 0, done |-> FALSE]

\* `self.states[index]` with index: i32 cast `as usize`: a negative index
\* casts to a huge usize, so the access is in range iff 0 <= index < len.
IndexOk(b, index) == index >= 0 /\ index < Len(b.states)

\* Mutant of get_index: the width is not added before the remainder is taken.
get_index_m(b, x, y) ==
    LET nx == Rem(x, b.cx)
        ny == Rem(y, b.cy)
    IN  ny * b.cx + nx

\* The index get_cell_at_position computes.
get_index(b, x, y) ==
    LET nx == Rem(x + b.cx, b.cx)
        ny == Rem(y + b.cy, b.cy)
    IN  ny * b.cx + nx

\* The value Board::get_cell_at_position yields when the index is out of
\* range stands for the panic of the slice access.
GetPanics == 0 - 1000

get_cell_at_position(b, x, y) ==
    LET index == get_index(b, x, y)
    IN  IF IndexOk(b, index) THEN b.states[index + 1] ELSE GetPanics

\* The index set_cell_at_position and lower_cell_lifetime compute: unwrapped.
set_index(b, x, y) == y * b.cx + x

\* Board::set_cell_at_position, where it does not panic (IndexOk).
set_cell_at_position(b, x, y, state) ==
    [b EXCEPT !.states[set_index(b, x, y) + 1] = state]

\* Mutant of lower_cell_lifetime: the result is not floored at 0.
lower_cell_lifetime_m(b, x, y, amount) ==
    [b EXCEPT !.states[set_index(b, x, y) + 1] = @ - amount]

\* Board::lower_cell_lifetime, where it does not panic.
lower_cell_lifetime(b, x, y, amount) ==
    [b EXCEPT !.states[set_index(b, x, y) + 1] = Max(@ - amount, 0)]

---------------------------------------------------------------------------
(* Rules (src/main.rs:47-52, 96-100).  birth[n + 1] models rules.birth[n]. *)

\* Mutant of Table: the vector has eight entries, for the counts 0..7.
Table_m(S) == [n \in 1..8 |-> (n - 1) \in S]

\* A nine-entry Vec<bool> that is true at the neighbor counts in S.
Table(S) == [n \in 1..9 |-> (n - 1) \in S]

\* The Rules value main() constructs.
MainRules == [birth |-> Table({3}), survive |-> Table({2, 3}), adding_lifetime |-> 1]

\* `rules.birth[neighbors as usize]`: the cast of a negative i8 gives a
\* huge usize, so the lookup is in range iff 0 <= neighbors < len.
TableIndexOk(table, n) == n >= 0 /\ n < Len(table)

---------------------------------------------------------------------------
(* next_step (src/main.rs:232-265).                                        *)

\* Mutant of neighbors: the centre (i, j) = (1, 1) is not skipped.
neighbors_m(b, x, y) ==
      get_cell_at_position(b, x - 1, y - 1)
    + get_cell_at_position(b, x - 1, y)
    + get_cell_at_position(b, x - 1, y + 1)
    + get_cell_at_position(b, x, y - 1)
    + get_cell_at_position(b, x, y)
    + get_cell_at_position(b, x, y + 1)
    + get_cell_at_position(b, x + 1, y - 1)
    + get_cell_at_position(b, x + 1, y)
    + get_cell_at_position(b, x + 1, y + 1)

\* 1 for a live cell, 0 for a dead one.
Live(v) == IF v > 0 THEN 1 ELSE 0

\* Mutant of neighbors: the live neighbors are counted, not their values summed.
neighbors_live_m(b, x, y) ==
      Live(get_cell_at_position(b, x - 1, y - 1))
    + Live(get_cell_at_position(b, x - 1, y))
    + Live(get_cell_at_position(b, x - 1, y + 1))
    + Live(get_cell_at_position(b, x, y - 1))
    + Live(get_cell_at_position(b, x, y + 1))
    + Live(get_cell_at_position(b, x + 1, y - 1))
    + Live(get_cell_at_position(b, x + 1, y))
    + Live(get_cell_at_position(b, x + 1, y + 1))

\* `neighbors` after the two inner loops `for i in 0..3 { for j in 0..3 {`:
\* the sum of the stored values of the eight cells (x + i - 1, y + j - 1),
\* (i, j) = (1, 1) skipped.  An i8 sum above i8::MAX panics in a debug build
\* (the wrapped value of a release build is not modelled); NeighborsOverflow
\* tells.
neighbors(b, x, y) ==
      get_cell_at_position(b, x - 1, y - 1)
    + get_cell_at_position(b, x - 1, y)
    + get_cell_at_position(b, x - 1, y + 1)
    + get_cell_at_position(b, x, y - 1)
    + get_cell_at_position(b, x, y + 1)
    + get_cell_at_position(b, x + 1, y - 1)
    + get_cell_at_position(b, x + 1, y)
    + get_cell_at_position(b, x + 1, y + 1)

NeighborsOverflow(n) == n > I8Max

\* Mutant of update_cell: a born cell is set to 1, not to adding_lifetime.
update_cell_m(g, r, new_game_state, x, y, n) ==
    IF get_cell_at_position(g, x, y) > 0
    THEN IF r.survive[n + 1]
         THEN set_cell_at_position(new_game_state, x, y, 1)
         ELSE lower_cell_lifetime(new_game_state, x, y, 1)
    ELSE IF r.birth[n + 1]
         THEN set_cell_at_position(new_game_state, x, y, 1)
         ELSE set_cell_at_position(new_game_state, x, y, 0)

\* The body of the `for x` loop for cell (x, y), given its neighbor count n
\* within the tables: the update of new_game_state.
update_cell(g, r, new_game_state, x, y, n) ==
    IF get_cell_at_position(g, x, y) > 0
    THEN IF r.survive[n + 1]
         THEN set_cell_at_position(new_game_state, x, y, 1)
         ELSE lower_cell_lifetime(new_game_state, x, y, 1)
    ELSE IF r.birth[n + 1]
         THEN set_cell_at_position(new_game_state, x, y, r.adding_lifetime)
         ELSE set_cell_at_position(new_game_state, x, y, 0)

\* Whether the loop body for (x, y), with neighbor count n, panics: the i8
\* sum overflows, or the table the branch reads is indexed out of range.
cell_panics(g, r, x, y, n) ==
    \/ NeighborsOverflow(n)
    \/ IF get_cell_at_position(g, x, y) > 0
       THEN ~TableIndexOk(r.survive, n)
       ELSE ~TableIndexOk(r.birth, n)

\* Mutant of step_cells: the generation is computed in place: the loop body
\* reads the board it has already written to.
RECURSIVE step_cells_m(_, _, _, _)
step_cells_m(g, r, new_game_state, k) ==
    IF k >= g.cx * g.cy
    THEN [panicked |-> FALSE, board |-> g]
    ELSE LET x == k % g.cx
             y == k \div g.cx
             n == neighbors(g, x, y)
         IN  IF cell_panics(g, r, x, y, n)
             THEN [panicked |-> TRUE, board |-> g]
             ELSE step_cells_m(update_cell(g, r, g, x, y, n), r, new_game_state, k + 1)

\* The loops `for y { for x { .. } }` from cell number k = y * cx + x on.
RECURSIVE step_cells(_, _, _, _)
step_cells(g, r, new_game_state, k) ==
    IF k >= g.cx * g.cy
    THEN [panicked |-> FALSE, board |-> new_game_state]
    ELSE LET x == k % g.cx
             y == k \div g.cx
             n == neighbors(g, x, y)
         IN  IF cell_panics(g, r, x, y, n)
             THEN [panicked |-> TRUE, board |-> new_game_state]
             ELSE step_cells(g, r, update_cell(g, r, new_game_state, x, y, n), k + 1)

\* next_step up to its last line: new_game_state, or the panic.
compute_step(g, r) == step_cells(g, r, Board_new(g.cx, g.cy), 0)

\* `game.states = new_game_state.states.clone()`: cx and cy are kept.
install(g, new_game_state) == [g EXCEPT !.states = new_game_state.states]

\* next_step(game, rules) where it does not panic.
next_step(g, r) == install(g, compute_step(g, r).board)

---------------------------------------------------------------------------
(* The program: main() (src/main.rs:84-230).                               *)

Slots == 1..MaxThreads

\* A thread is in flight from its spawn until its closure has returned.
InFlightPcs == {"empty", "sleep", "blocked", "locked", "computed"}

InFlight == {s \in Slots : thr_pc[s] \in InFlightPcs}

\* The initial board setup: Board::new and the three set_cell_at_position.
InitialBoard ==
    set_cell_at_position(
        set_cell_at_position(
            set_cell_at_position(Board_new(InitBoardX, InitBoardY), 1, 1, 1),
            2, 1, 1),
        3, 1, 1)

\* The board_size main() creates simulation_cfg with: as wide as the initial
\* board and less high.
InitialBoardSize == [x |-> InitBoardX, y |-> InitBoardY - 1]

\* SimulationConfig::new(board_size)
SimulationConfig_new(size) ==
    [board_size |-> size, hovered |-> FALSE, auto_run |-> FALSE,
     should_simulate_next_frame |-> FALSE, drawing |-> FALSE, erasing |-> FALSE,
     error |-> FALSE]

\* The state when main() enters its loop: the board is seeded, simulation_cfg
\* is new, and `handler` is the handle of thread::spawn(|| {}), which may
\* still be running.
Init ==
    /\ game = InitialBoard
    /\ lock = "free"
    /\ poisoned = FALSE
    /\ cfg = SimulationConfig_new(InitialBoardSize)
    /\ cell_below_mouse = [x |-> 0, y |-> 0]
    /\ mouse_down = FALSE
    /\ fg_pc = "ui"
    /\ thr_pc = [s \in Slots |-> IF s = 1 THEN "empty" ELSE "free"]
    /\ thr_new = [s \in Slots |-> NoBoard]
    /\ thr_src = [s \in Slots |-> NoBoard]
    /\ handler = 1
    /\ last_sched = "none"
    /\ frames = 0
    /\ rules = MainRules
    /\ board = NoBoard
    /\ out = NoOutcome
    /\ gen = 0
    /\ probe = NoProbe

\* Mutant of LockFree: lock() does not wait for the holder.
LockFree_m == TRUE

\* Mutex::lock returns at once iff no one holds the mutex.
LockFree == lock = "free"

\* What the user can do to the window in one frame: nothing, or operate one
\* of its widgets.
WidgetEvents == {"none", "next_step", "running", "draw", "erase", "clear",
                 "randomize", "width", "height"}

\* The outcomes of "Randomize Field" on n cells that the model draws, each
\* cell being 1 or 0 (rand() % 2): no cell live, one cell live, every cell live.
RandomStates(n) ==
    {[i \in 1..n |-> IF i = p THEN 1 ELSE 0] : p \in 0..n} \cup {[i \in 1..n |-> 1]}

\* The values a drag of a board-size slider can leave.
SliderValues == 1..MaxSlider

\* simulation_cfg after the widgets of the closure have run for event ev (with
\* slider value v), before the error handling and `hovered`.
ui_widgets(c, ev, v) ==
    [c EXCEPT !.error = FALSE,
              !.should_simulate_next_frame = IF ev = "next_step" THEN TRUE ELSE @,
              !.auto_run = IF ev = "running" THEN ~@ ELSE @,
              !.drawing = IF ev = "draw" THEN ~@ ELSE @,
              !.erasing = IF ev = "erase" THEN ~@ ELSE @,
              !.board_size = IF ev = "width" THEN [@ EXCEPT !.x = v]
                             ELSE IF ev = "height" THEN [@ EXCEPT !.y = v]
                             ELSE @]

\* Mutant of error_check: the conflict of the two flags is not detected.
error_check_m(c) == FALSE

\* The "Error handling" block of the closure.
error_check(c) == c.drawing /\ c.erasing

\* simulation_cfg at the end of egui_macroquad::ui.
ui_config(c, ev, v, hov) ==
    [ui_widgets(c, ev, v) EXCEPT !.error = error_check(ui_widgets(c, ev, v)),
                                 !.hovered = hov]

\* The process runs: main() has not panicked.
Running == fg_pc \notin {"panicked", "off"}

\* egui_macroquad::ui(..) of one frame (src/main.rs:109-161).  "Clear board"
\* and "Randomize Field" lock game_mtx inside the closure: the frame goes on
\* once the lock is free, and main() panics at unwrap() if it is poisoned.
Ui ==
    /\ fg_pc = "ui"
    /\ frames < MaxFrames
    /\ \E ev \in WidgetEvents, v \in SliderValues, hov \in BOOLEAN :
          /\ ev \in {"width", "height"} \/ v = 1
          /\ IF ev \in {"clear", "randomize"}
             THEN /\ LockFree
                  /\ IF poisoned
                     THEN /\ fg_pc' = "panicked"
                          /\ UNCHANGED <<game, cfg>>
                     ELSE /\ fg_pc' = "after_ui"
                          /\ cfg' = ui_config(cfg, ev, v, hov)
                          /\ IF ev = "clear"
                             THEN game' = [game EXCEPT !.states = Zeros(game.cx * game.cy)]
                             ELSE \E r \in RandomStates(game.cx * game.cy) :
                                      game' = [game EXCEPT !.states = r]
             ELSE /\ fg_pc' = "after_ui"
                  /\ cfg' = ui_config(cfg, ev, v, hov)
                  /\ UNCHANGED game
    /\ frames' = frames + 1
    /\ UNCHANGED <<lock, poisoned, cell_below_mouse, mouse_down, thr_pc, thr_new,
                   thr_src, handler, last_sched, rules, pureVars>>

\* `if simulation_cfg.error { draw; next_frame().await; continue; }`
ErrorSkip ==
    /\ fg_pc = "after_ui"
    /\ cfg.error
    /\ fg_pc' = "ui"
    /\ UNCHANGED <<game, lock, poisoned, cfg, cell_below_mouse, mouse_down, thr_pc,
                   thr_new, thr_src, handler, last_sched, frames, rules,
                   pureVars>>

\* The cell under the pointer: (fx / wx) as i32 with wx = screen_width / cx,
\* for a pointer inside the window.  The pointer positions drawn are the
\* window's top left and bottom right corners: the first and the last cell.
MouseCells(g) == {[x |-> 0, y |-> 0], [x |-> g.cx - 1, y |-> g.cy - 1]}

\* `let mut game = game_mtx.lock().unwrap();` and the block that follows it
\* (src/main.rs:170-183): with the button down, cell_below_mouse is computed
\* from the dimensions of the board as it is now.
LockGame ==
    /\ fg_pc = "after_ui"
    /\ ~cfg.error
    /\ LockFree
    /\ IF poisoned
       THEN /\ fg_pc' = "panicked"
            /\ UNCHANGED <<lock, mouse_down, cell_below_mouse>>
       ELSE /\ fg_pc' = "locked"
            /\ lock' = "main"
            /\ \E down \in BOOLEAN, m \in MouseCells(game) :
                  /\ mouse_down' = down
                  /\ cell_below_mouse' = IF down THEN m ELSE cell_below_mouse
    /\ UNCHANGED <<game, poisoned, cfg, thr_pc, thr_new, thr_src, handler, last_sched, frames, rules, pureVars>>

\* Mutant of size_differs: only the width is compared.
size_differs_m(g, c) == g.cx # c.board_size.x

\* The condition of the resize block.
size_differs(g, c) == g.cx # c.board_size.x \/ g.cy # c.board_size.y

\* mem::replace(&mut *game, Board::new(board_size))
resized(c) == Board_new(c.board_size.x, c.board_size.y)

\* "Resizes the board if the user changes the size of the board"
\* (src/main.rs:185-194).
Resize ==
    /\ fg_pc = "locked"
    /\ game' = IF size_differs(game, cfg) THEN resized(cfg) ELSE game
    /\ fg_pc' = "resized"
    /\ UNCHANGED <<lock, poisoned, cfg, cell_below_mouse, mouse_down, thr_pc, thr_new,
                   thr_src, handler, last_sched, frames, rules, pureVars>>

\* The condition of the "Drawing and erasing" block, and the state it writes.
paints(c, down) == down /\ ~c.hovered /\ (c.drawing \/ c.erasing)

paint_state(c) == IF c.drawing THEN 1 ELSE 0

\* "Drawing and erasing" (src/main.rs:196-203).  A write outside the vector
\* panics: main() unwinds holding the guard, which poisons the mutex.  This
\* is the frame's last read of the button, so mouse_down is cleared here.
Paint ==
    /\ fg_pc = "resized"
    /\ IF paints(cfg, mouse_down)
       THEN IF IndexOk(game, set_index(game, cell_below_mouse.x, cell_below_mouse.y))
            THEN /\ game' = set_cell_at_position(game, cell_below_mouse.x,
                                                 cell_below_mouse.y, paint_state(cfg))
                 /\ fg_pc' = "painted"
                 /\ UNCHANGED <<lock, poisoned>>
            ELSE /\ fg_pc' = "panicked"
                 /\ lock' = "free"
                 /\ poisoned' = TRUE
                 /\ UNCHANGED game
       ELSE /\ fg_pc' = "painted"
            /\ UNCHANGED <<game, lock, poisoned>>
    /\ mouse_down' = FALSE
    /\ UNCHANGED <<cfg, cell_below_mouse, thr_pc, thr_new, thr_src, handler,
                   last_sched, frames, rules, pureVars>>

\* Mutant of is_finished: the handle is not asked.
is_finished_m(h) == TRUE

\* handler.is_finished()
is_finished(h) == thr_pc[h] = "finished"

\* The slots once the old JoinHandle is dropped: a finished thread is gone, a
\* running one is detached.
reaped(h) == [thr_pc EXCEPT ![h] = IF @ = "finished" THEN "free" ELSE @]

\* The slot thread::spawn puts the new thread in.
FreeSlots(h) == {s \in Slots : reaped(h)[s] = "free"}
spawn_slot(h) == CHOOSE s \in FreeSlots(h) : \A t \in FreeSlots(h) : s <= t

\* "Runs the simulation automatically" (src/main.rs:205-220).
Schedule ==
    /\ fg_pc = "painted"
    /\ fg_pc' = "render"
    /\ IF cfg.auto_run \/ cfg.should_simulate_next_frame
       THEN /\ cfg' = [cfg EXCEPT !.should_simulate_next_frame = FALSE]
            /\ IF is_finished(handler) /\ FreeSlots(handler) # {}
               THEN /\ thr_pc' = [reaped(handler) EXCEPT ![spawn_slot(handler)] = "sleep"]
                    /\ handler' = spawn_slot(handler)
                    /\ last_sched' = "spawned"
               ELSE /\ last_sched' = "busy"
                    /\ UNCHANGED <<thr_pc, handler>>
       ELSE /\ last_sched' = "idle"
            /\ UNCHANGED <<cfg, thr_pc, handler>>
    /\ UNCHANGED <<game, lock, poisoned, cell_below_mouse, mouse_down, thr_new, thr_src,
                   frames, rules, pureVars>>

\* Mutant of FrameEnd: the guard outlives the loop body.
FrameEnd_m ==
    /\ fg_pc = "render"
    /\ fg_pc' = "ui"
    /\ last_sched' = "none"
    /\ UNCHANGED <<game, lock, poisoned, cfg, cell_below_mouse, mouse_down, thr_pc,
                   thr_new, thr_src, handler, frames, rules, pureVars>>

\* clear_background, draw_board, egui_macroquad::draw and next_frame().await
\* (src/main.rs:222-229), all with `game` in scope: the guard is dropped when
\* the loop body ends.
FrameEnd ==
    /\ fg_pc = "render"
    /\ fg_pc' = "ui"
    /\ lock' = "free"
    /\ last_sched' = "none"
    /\ UNCHANGED <<game, poisoned, cfg, cell_below_mouse, mouse_down, thr_pc, thr_new,
                   thr_src, handler, frames, rules, pureVars>>

\* The closure of thread::spawn(|| {}) returns.
EmptyExit(s) ==
    /\ Running
    /\ thr_pc[s] = "empty"
    /\ thr_pc' = [thr_pc EXCEPT ![s] = "finished"]
    /\ UNCHANGED <<game, lock, poisoned, cfg, cell_below_mouse, mouse_down, fg_pc,
                   thr_new, thr_src, handler, last_sched, frames, rules,
                   pureVars>>

\* Mutant of Wake: the thread takes the guard first and sleeps holding it.
Wake_m(s) ==
    /\ Running
    /\ thr_pc[s] = "sleep"
    /\ LockFree
    /\ lock' = "thread"
    /\ UNCHANGED <<game, poisoned, cfg, cell_below_mouse, mouse_down, fg_pc, thr_pc,
                   thr_new, thr_src, handler, last_sched, frames, rules,
                   pureVars>>

\* thread::sleep(wait_time * 10 ms) returns: the thread calls lock().
Wake(s) ==
    /\ Running
    /\ thr_pc[s] = "sleep"
    /\ thr_pc' = [thr_pc EXCEPT ![s] = "blocked"]
    /\ UNCHANGED <<game, lock, poisoned, cfg, cell_below_mouse, mouse_down, fg_pc,
                   thr_new, thr_src, handler, last_sched, frames, rules,
                   pureVars>>

\* game_for_thread.lock().unwrap() returns the guard, or panics if the mutex
\* is poisoned (the thread ends).
Acquire(s) ==
    /\ Running
    /\ thr_pc[s] = "blocked"
    /\ LockFree
    /\ IF poisoned
       THEN /\ thr_pc' = [thr_pc EXCEPT ![s] = "finished"]
            /\ UNCHANGED <<lock, thr_src>>
       ELSE /\ thr_pc' = [thr_pc EXCEPT ![s] = "locked"]
            /\ lock' = "thread"
            /\ thr_src' = [thr_src EXCEPT ![s] = game]
    /\ UNCHANGED <<game, poisoned, cfg, cell_below_mouse, mouse_down, fg_pc, thr_new,
                   handler, last_sched, frames, rules, pureVars>>

\* next_step up to its last line: the loops fill new_game_state from the
\* board behind the guard.  A panic ends the thread and poisons the mutex.
Compute(s) ==
    /\ Running
    /\ thr_pc[s] = "locked"
    /\ LET res == compute_step(game, rules)
       IN  IF res.panicked
           THEN /\ thr_pc' = [thr_pc EXCEPT ![s] = "finished"]
                /\ lock' = "free"
                /\ poisoned' = TRUE
                /\ UNCHANGED thr_new
           ELSE /\ thr_pc' = [thr_pc EXCEPT ![s] = "computed"]
                /\ thr_new' = [thr_new EXCEPT ![s] = res.board]
                /\ UNCHANGED <<lock, poisoned>>
    /\ UNCHANGED <<game, cfg, cell_below_mouse, mouse_down, fg_pc, thr_src, handler,
                   last_sched, frames, rules, pureVars>>

\* The last line of next_step, and the closure's end: the guard is dropped
\* and the thread is finished.
Install(s) ==
    /\ Running
    /\ thr_pc[s] = "computed"
    /\ game' = install(game, thr_new[s])
    /\ thr_new' = [thr_new EXCEPT ![s] = NoBoard]
    /\ thr_pc' = [thr_pc EXCEPT ![s] = "finished"]
    /\ lock' = "free"
    /\ UNCHANGED <<poisoned, cfg, cell_below_mouse, mouse_down, fg_pc, thr_src, handler,
                   last_sched, frames, rules, pureVars>>

Next ==
    \/ Ui
    \/ ErrorSkip
    \/ LockGame
    \/ Resize
    \/ Paint
    \/ Schedule
    \/ FrameEnd
    \/ \E s \in Slots : EmptyExit(s)
    \/ \E s \in Slots : Wake(s)
    \/ \E s \in Slots : Acquire(s)
    \/ \E s \in Slots : Compute(s)
    \/ \E s \in Slots : Install(s)

Spec == Init /\ [][Next]_vars

---------------------------------------------------------------------------
(* SpecStep: next_step as a function of its arguments.                     *)

\* The board of w x h whose live cells are the cells numbered in S, storing
\* 1, except cell number c, which stores v.
PickedBoard(w, h, S, c, v) ==
    [cx |-> w, cy |-> h,
     states |-> [i \in 1..(w * h) |-> IF i = c THEN v ELSE IF i \in S THEN 1 ELSE 0]]

\* board is one of 1..MaxDim x 1..MaxDim with at most MaxLive live cells, all
\* storing 1 except at most one, which stores up to MaxVal.
IsSmallBoard ==
    \E w \in 1..MaxDim, h \in 1..MaxDim :
        \E S \in SUBSET (1..(w * h)) :
            /\ Cardinality(S) <= MaxLive
            /\ \E c \in S \cup {0}, v \in 1..MaxVal :
                  /\ c = 0 => v = 1
                  /\ board = PickedBoard(w, h, S, c, v)

\* The board of w x h whose live cells (value 1) are the cells of S.
BoardOf(w, h, S) ==
    [cx |-> w, cy |-> h,
     states |-> [i \in 1..(w * h) |->
                    IF <<(i - 1) % w, (i - 1) \div w>> \in S THEN 1 ELSE 0]]

\* The cells main() sets alive at start (src/main.rs:90-92).
SeedCells == {<<1, 1>>, <<2, 1>>, <<3, 1>>}

\* board is one of 5..MaxBlinkerDim x 5..MaxBlinkerDim with the seed cells live.
IsBlinkerBoard ==
    \E w \in 5..MaxBlinkerDim, h \in 5..MaxBlinkerDim : board = BoardOf(w, h, SeedCells)

\* Rules values: the one of main(), and one with other tables whose
\* adding_lifetime is MaxVal.
RuleChoices ==
    {MainRules,
     [birth |-> Table({1, 3, 6}), survive |-> Table({0, 2, 6}), adding_lifetime |-> MaxVal]}

ProgIdle ==
    /\ game = NoBoard
    /\ lock = "free"
    /\ poisoned = FALSE
    /\ cfg = [board_size |-> [x |-> 0, y |-> 0], hovered |-> FALSE, auto_run |-> FALSE,
              should_simulate_next_frame |-> FALSE, drawing |-> FALSE,
              erasing |-> FALSE, error |-> FALSE]
    /\ cell_below_mouse = [x |-> 0, y |-> 0]
    /\ mouse_down = FALSE
    /\ fg_pc = "off"
    /\ thr_pc = [s \in 1..MaxThreads |-> "free"]
    /\ thr_new = [s \in 1..MaxThreads |-> NoBoard]
    /\ thr_src = [s \in 1..MaxThreads |-> NoBoard]
    /\ handler = 1
    /\ last_sched = "none"
    /\ frames = 0

InitStep ==
    /\ ProgIdle
    /\ rules \in RuleChoices
    /\ IsSmallBoard \/ IsBlinkerBoard
    /\ out = NoOutcome
    /\ gen = 0
    /\ probe = NoProbe

\* One call next_step(&mut board, &rules): out is the board afterwards, or
\* the panic (which leaves the board as it was: the install is the last line).
StepApply ==
    /\ ~out.done
    /\ LET res == compute_step(board, rules)
       IN  out' = IF res.panicked
                  THEN [done |-> TRUE, panicked |-> TRUE, board |-> board]
                  ELSE [done |-> TRUE, panicked |-> FALSE, board |-> install(board, res.board)]
    /\ UNCHANGED <<board, gen, probe, rules, progVars>>

\* The next call works on the board the previous one left.
StepAdvance ==
    /\ out.done
    /\ ~out.panicked
    /\ gen + 1 < MaxGen
    /\ board' = out.board
    /\ out' = NoOutcome
    /\ gen' = gen + 1
    /\ UNCHANGED <<probe, rules, progVars>>

NextStep == StepApply \/ StepAdvance

SpecStep == InitStep /\ [][NextStep]_vars

---------------------------------------------------------------------------
(* SpecGet: Board::get_cell_at_position as a function of its arguments.    *)

\* The board of w x h whose cell number i holds i + 1: no two cells agree.
LabelledBoard(w, h) == [cx |-> w, cy |-> h, states |-> [i \in 1..(w * h) |-> i]]

InitGet ==
    /\ ProgIdle
    /\ rules = MainRules
    /\ board \in {LabelledBoard(w, h) : w \in 1..MaxGetDim, h \in 1..MaxGetDim}
    /\ out = NoOutcome
    /\ gen = 0
    /\ probe = NoProbe

\* One call board.get_cell_at_position(x + k * cx, y) for an in-range (x, y);
\* base is board.get_cell_at_position(x, y).
GetProbe ==
    /\ \E x \in 0..(board.cx - 1), y \in 0..(board.cy - 1), k \in (0 - MaxK)..MaxK :
          probe' = [x |-> x, y |-> y, k |-> k,
                    base |-> get_cell_at_position(board, x, y),
                    value |-> get_cell_at_position(board, x + k * board.cx, y),
                    done |-> TRUE]
    /\ UNCHANGED <<board, out, gen, rules, progVars>>

NextGet == GetProbe

SpecGet == InitGet /\ [][NextGet]_vars

---------------------------------------------------------------------------
(* Properties of next_step and get_cell_at_position.                       *)

\* The cells of board b.
Cells(b) == (0..(b.cx - 1)) \X (0..(b.cy - 1))

\* The stored value of cell c of board b, read directly.
At(b, c) == b.states[c[2] * b.cx + c[1] + 1]

\* A completed, non-panicking call of next_step is recorded in out.
Stepped == out.done /\ ~out.panicked

\* C3: for every cell of the source grid with neighbor count n, one step
\* gives: a dead cell becomes adding_lifetime when birth[n] is true and 0
\* otherwise; a live cell with survive[n] true becomes exactly 1 whatever
\* value it stored.
C3_BirthAndSurvival ==
    Stepped =>
        \A c \in Cells(board) :
            LET n == neighbors(board, c[1], c[2])
            IN  /\ At(board, c) = 0 =>
                    At(out.board, c) = IF rules.birth[n + 1] THEN rules.adding_lifetime ELSE 0
                /\ (At(board, c) > 0 /\ rules.survive[n + 1]) => At(out.board, c) = 1

\* C3 witness: a step in which a dead cell was born with adding_lifetime > 1
\* and a live cell storing more than 1 survived.
C3_Witness ==
    /\ Stepped
    /\ rules.adding_lifetime > 1
    /\ \E c \in Cells(board) :
          At(board, c) = 0 /\ rules.birth[neighbors(board, c[1], c[2]) + 1]
    /\ \E c \in Cells(board) :
          At(board, c) > 1 /\ rules.survive[neighbors(board, c[1], c[2]) + 1]

\* C4 (as claimed): a live cell storing v whose neighbor count n has
\* survive[n] false stores v - 1, floored at 0, after the step.
C4_DecayFromStoredValue ==
    Stepped =>
        \A c \in Cells(board) :
            (At(board, c) > 0 /\ ~rules.survive[neighbors(board, c[1], c[2]) + 1])
                => At(out.board, c) = Max(At(board, c) - 1, 0)

Adjacent(w, h, c, d) ==
    /\ c # d
    /\ (c[1] - d[1]) % w \in {0, 1, w - 1}
    /\ (c[2] - d[2]) % h \in {0, 1, h - 1}

\* The board's only non-zero cell is c.
OnlyNonZero(b, c) == At(b, c) > 0 /\ \A d \in Cells(b) : d # c => At(b, d) = 0

\* C7: the neighbor count is the sum of the stored values: on a grid of at
\* least 3x3 whose only non-zero cell holds 3, the count computed for every
\* cell adjacent to it is 3 (and in general the stored value).
C7_CountIsSumOfValues ==
    (board.cx >= 3 /\ board.cy >= 3) =>
        \A c \in Cells(board) :
            OnlyNonZero(board, c) =>
                \A d \in Cells(board) :
                    Adjacent(board.cx, board.cy, c, d) =>
                        neighbors(board, d[1], d[2]) = At(board, c)

\* C7 witness: a step was computed on such a grid whose lone cell holds 3; the
\* cell next to it had count 3, so with birth[3] it was born.
C7_Witness ==
    /\ Stepped
    /\ gen = 0
    /\ board.cx >= 3 /\ board.cy >= 3
    /\ OnlyNonZero(board, <<1, 1>>)
    /\ At(board, <<1, 1>>) = 3
    /\ rules.birth[3 + 1]
    /\ At(out.board, <<2, 1>>) = rules.adding_lifetime

\* The second phase of the oscillator.
VerticalCells == {<<2, 0>>, <<2, 1>>, <<2, 2>>}

\* C8: on a grid of at least 5x5 whose only live cells are (1,1),(2,1),(3,1),
\* with the rules of main(), one step yields exactly (2,0),(2,1),(2,2) and a
\* second step yields the original three cells again.
C8_Blinker ==
    (out.done /\ rules = MainRules /\ board.cx >= 5 /\ board.cy >= 5) =>
        /\ (gen = 0 /\ board = BoardOf(board.cx, board.cy, SeedCells)) =>
               (~out.panicked /\ out.board = BoardOf(board.cx, board.cy, VerticalCells))
        /\ (gen = 1 /\ board = BoardOf(board.cx, board.cy, VerticalCells)) =>
               (~out.panicked /\ out.board = BoardOf(board.cx, board.cy, SeedCells))

\* C8 witness: the second generation computed from the seed is the seed.
C8_Witness ==
    /\ Stepped
    /\ gen = 1
    /\ rules = MainRules
    /\ board.cx >= 5 /\ board.cy >= 5
    /\ board = BoardOf(board.cx, board.cy, VerticalCells)
    /\ out.board = BoardOf(board.cx, board.cy, SeedCells)

---------------------------------------------------------------------------
(* Properties of the program.                                              *)

\* C1: at every moment at most one background job is in flight: a frame with
\* auto_run set or a step requested spawns only when the previous handle
\* reports finished.
C1_AtMostOneJob == Cardinality(InFlight) <= 1

\* C1 witness: a frame with auto_run set or a step requested found the
\* stepping job unfinished and spawned nothing.
C1_Witness ==
    /\ fg_pc = "render"
    /\ last_sched = "busy"
    /\ thr_pc[handler] \in {"sleep", "blocked"}

\* C2: a background step is atomic with respect to the foreground: from the
\* moment the thread holds the lock until it installs, the grid is the one it
\* found, and what it installs is next_step of that grid.
C2_StepAtomic ==
    [][\A s \in Slots :
          /\ thr_pc[s] \in {"locked", "computed"} => game = thr_src[s]
          /\ (thr_pc[s] = "computed" /\ thr_pc'[s] = "finished") =>
                 game' = next_step(thr_src[s], rules)]_vars

\* C2 witness: a step has installed a generation that differs from the grid
\* it found, after the foreground had written to that grid.
C2_Witness ==
    \E s \in Slots :
        /\ thr_pc[s] = "finished"
        /\ thr_src[s] # NoBoard
        /\ \E i \in DOMAIN thr_src[s].states : thr_src[s].states[i] > 0
        /\ game = next_step(thr_src[s], rules)
        /\ game # thr_src[s]

\* C6: in every step taken from a reachable state of the program, whatever
\* the grid's size, the neighbor count of every cell lies in 0..8 and so
\* within both rule tables.
C6_CountWithinTables ==
    (\E s \in Slots : thr_pc[s] = "locked") =>
        \A c \in Cells(game) :
            LET n == neighbors(game, c[1], c[2])
            IN  /\ n \in 0..8
                /\ TableIndexOk(rules.birth, n)
                /\ TableIndexOk(rules.survive, n)

\* C6 witness: a step has run its loops on a one-column grid in which a live
\* cell is its own neighbor through the wrap and its count is 8.
C6_Witness ==
    \E s \in Slots :
        /\ thr_pc[s] = "computed"
        /\ game.cx = 1
        /\ \E c \in Cells(game) : At(game, c) > 0 /\ neighbors(game, c[1], c[2]) = 8

\* C9: a frame that finds the grid's width or height different from
\* board_size replaces the grid by one of exactly board_size whose every cell
\* is 0.
C9_ResizeGivesDeadGrid ==
    [][(fg_pc = "locked" /\ fg_pc' = "resized"
        /\ (game.cx # cfg.board_size.x \/ game.cy # cfg.board_size.y)) =>
           /\ game'.cx = cfg.board_size.x
           /\ game'.cy = cfg.board_size.y
           /\ Len(game'.states) = cfg.board_size.x * cfg.board_size.y
           /\ \A i \in DOMAIN game'.states : game'.states[i] = 0]_vars

\* C9 witness: the second or a later frame has resized a grid; the grid is
\* all dead and of the configured size, which a slider has changed.
C9_Witness ==
    /\ fg_pc = "resized"
    /\ frames >= 2
    /\ cfg.board_size.x # InitBoardX
    /\ game = Board_new(cfg.board_size.x, cfg.board_size.y)
    /\ cell_below_mouse.x >= game.cx

\* A step of the frame in which drawing and erasing are both true: the ui
\* pass that ends with both set, or any step until the frame is abandoned.
InConflictFrame ==
    \/ fg_pc = "ui" /\ fg_pc' = "after_ui" /\ cfg'.drawing /\ cfg'.erasing
    \/ fg_pc = "after_ui" /\ cfg.drawing /\ cfg.erasing

\* C10 (as claimed): in a frame in which drawing and erasing are both true no
\* cell of the grid is mutated.
C10_NoMutationInConflictFrame == [][InConflictFrame => game' = game]_vars

\* C10 (amended): in such a frame main() goes from the ui pass straight to
\* the next frame: it takes no lock, paints and resizes nothing and spawns no
\* thread.
C10_ConflictFrameSkipsBody ==
    [][(fg_pc = "after_ui" /\ cfg.drawing /\ cfg.erasing /\ fg_pc' # fg_pc) =>
           /\ fg_pc' = "ui"
           /\ game' = game
           /\ lock' = lock
           /\ thr_pc' = thr_pc
           /\ handler' = handler
           /\ cell_below_mouse' = cell_below_mouse]_vars

\* C10 witness: a frame with both flags true has been abandoned while
\* auto_run was set and the stepping thread could have been respawned.
C10_Witness ==
    /\ fg_pc = "ui"
    /\ cfg.error
    /\ cfg.drawing /\ cfg.erasing
    /\ cfg.auto_run
    /\ is_finished(handler)

---------------------------------------------------------------------------
(* Properties of the frame loop, the stepping thread and the grid lock.    *)

\* C11 (as claimed): every paint write targets a cell (x, y) with
\* 0 <= x < cx and 0 <= y < cy of the grid installed at the moment of the
\* write and changes exactly that cell, also in a frame that resized the grid
\* after cell_below_mouse was computed.
C11_PaintWithinGrid ==
    [][(fg_pc = "resized" /\ fg_pc' # fg_pc /\ paints(cfg, mouse_down)) =>
           /\ cell_below_mouse.x \in 0..(game.cx - 1)
           /\ cell_below_mouse.y \in 0..(game.cy - 1)
           /\ fg_pc' = "painted"
           /\ game' = [game EXCEPT
                         !.states[cell_below_mouse.y * game.cx + cell_below_mouse.x + 1] =
                             paint_state(cfg)]]_vars

\* C12 (as claimed): with auto_run off a step request is never lost: the
\* scheduling block that finds the request set either spawns the stepping
\* thread, or, the earlier thread being unfinished, leaves the request
\* pending for a later frame.
C12_RequestNeverLost ==
    [][(fg_pc = "painted" /\ fg_pc' = "render"
        /\ ~cfg.auto_run /\ cfg.should_simulate_next_frame) =>
           IF is_finished(handler)
           THEN thr_pc'[handler'] = "sleep"
           ELSE cfg'.should_simulate_next_frame]_vars

\* C13 (as claimed): main() holds the lock on the grid only while it reads or
\* writes cell data: the guard is released before the drawing calls and
\* before the wait for the next frame.
C13_LockFreeWhileRendering == fg_pc = "render" => lock # "main"

\* C14 (as claimed): the grid is replaced only in response to a change of
\* board_size: while board_size is the one it was created with, the resize
\* block of the first frame leaves the grid, and so the seed cells
\* (1,1),(2,1),(3,1), as they are.
C14_NoResizeWithoutSizeChange ==
    [][(frames = 1 /\ fg_pc = "locked" /\ fg_pc' = "resized"
        /\ cfg.board_size = InitialBoardSize) =>
           /\ game' = game
           /\ \A c \in SeedCells : At(game', c) = 1]_vars

\* The positions of a stepping thread from its spawn to its return.
SteppingPcs == {"sleep", "blocked", "locked", "computed"}

\* C15 (as claimed): a stepping thread is never cancelled: from its spawn to
\* its return it is in a process that runs and on a mutex it can lock, so that
\* it can go on to wait, step once on the then-current grid and finish.
C15_JobNeverCancelled ==
    \A s \in Slots : thr_pc[s] \in SteppingPcs => (Running /\ ~poisoned)

\* C16: the stepping thread holds the lock exactly while it computes and
\* installs its step: a thread that sleeps, or waits in lock(), or has
\* returned holds nothing, so main() is never kept from the lock by a
\* thread's sleep.
C16_LockHeldOnlyToStep ==
    (lock = "thread") <=> (\E s \in Slots : thr_pc[s] \in {"locked", "computed"})

\* C16 witness: in a later frame main() has taken the lock while the stepping
\* thread was asleep.
C16_Witness ==
    /\ frames >= 2
    /\ fg_pc = "locked"
    /\ lock = "main"
    /\ \E s \in Slots : thr_pc[s] = "sleep"

\* What the loop body of next_step leaves in the new board for a cell that
\* stores v and has neighbor count n in the source board.
NextValue(r, v, n) ==
    IF v > 0
    THEN IF r.survive[n + 1] THEN 1 ELSE 0
    ELSE IF r.birth[n + 1] THEN r.adding_lifetime ELSE 0

\* C17: a step is a synchronous generational update: the call leaves the
\* source board as it was while the new one is computed, the result has the
\* source's dimensions, and every cell of the result is determined by the
\* cell's value and neighbor count in the source generation alone.
C17_SynchronousUpdate ==
    [][(~out.done /\ out'.done /\ ~out'.panicked) =>
           /\ board' = board
           /\ out'.board.cx = board.cx
           /\ out'.board.cy = board.cy
           /\ Len(out'.board.states) = board.cx * board.cy
           /\ \A c \in Cells(board) :
                  At(out'.board, c) =
                      NextValue(rules, At(board, c), neighbors(board, c[1], c[2]))]_vars

\* C17 witness: a step in which one cell died and a cell after it in the
\* loop order, adjacent to it, was born: an update in place would have
\* counted the dead cell as dead already.
C17_Witness ==
    /\ Stepped
    /\ \E c \in Cells(board), d \in Cells(board) :
          /\ c[2] * board.cx + c[1] < d[2] * board.cx + d[1]
          /\ c[1] - d[1] \in {0 - 1, 0, 1}
          /\ c[2] - d[2] \in {0 - 1, 0, 1}
          /\ At(board, c) > 0 /\ At(out.board, c) = 0
          /\ At(board, d) = 0 /\ At(out.board, d) > 0

\* C18: in every reachable state, whatever the interleaving of steps, paints,
\* clears, randomizes and resizes, the grid has cx >= 1, cy >= 1 and exactly
\* cx * cy cells; a step installed after a resize does not break this.
C18_LengthMatchesDims ==
    /\ game.cx >= 1
    /\ game.cy >= 1
    /\ Len(game.states) = game.cx * game.cy

\* C18 witness: a step has been installed in a grid that a slider had resized
\* before the thread took the lock.
C18_Witness ==
    \E s \in Slots :
        /\ thr_pc[s] = "finished"
        /\ thr_src[s] # NoBoard
        /\ thr_src[s].cx # InitBoardX
        /\ game.cx = thr_src[s].cx /\ game.cy = thr_src[s].cy
        /\ game.states = compute_step(thr_src[s], rules).board.states

\* C19: in every reachable state every cell of the grid is non-negative and
\* is 0, 1 or the rules' adding_lifetime, whatever steps, paints, clears,
\* randomizes and resizes came before.
C19_CellValues ==
    \A i \in DOMAIN game.states :
        /\ game.states[i] >= 0
        /\ game.states[i] \in {0, 1, rules.adding_lifetime}

\* C19 witness: in a later frame a step has been installed in which a live
\* cell did not survive (lower_cell_lifetime ran on it) and a dead cell was
\* born.
C19_Witness ==
    \E s \in Slots :
        /\ frames >= 2
        /\ thr_pc[s] = "finished"
        /\ thr_src[s] # NoBoard
        /\ game = next_step(thr_src[s], rules)
        /\ \E c \in Cells(game) : At(thr_src[s], c) > 0 /\ At(game, c) = 0
        /\ \E c \in Cells(game) : At(thr_src[s], c) = 0 /\ At(game, c) = rules.adding_lifetime

\* The thread that holds the lock is at a position whose step (Compute,
\* Install) waits for nothing: it needs only that the process runs.
HolderThreadCanStep ==
    Running /\ \E s \in Slots : thr_pc[s] \in {"locked", "computed"}

\* C20: the program never deadlocks on the grid lock.  main() is not holding
\* a guard where it calls lock(): in the ui pass (Clear board, Randomize
\* Field) and at the frame's own lock().  And whoever holds the lock can take
\* its next step towards releasing it: main() the rest of its frame, the
\* thread its step and install.
C20_NoLockDeadlock ==
    /\ fg_pc \in {"ui", "after_ui"} => lock # "main"
    /\ lock = "main" => ENABLED (Resize \/ Paint \/ Schedule \/ FrameEnd)
    /\ lock = "thread" => HolderThreadCanStep

\* C20 witness: main() is at its lock() of a later frame while the stepping
\* thread holds the lock, its step computed and its install still to come.
C20_Witness ==
    /\ frames >= 2
    /\ fg_pc = "after_ui"
    /\ ~cfg.error
    /\ lock = "thread"
    /\ \E s \in Slots : thr_pc[s] = "computed"

====
